---- MODULE Spec2Model ----
(***************************************************************************)
(* Snake-cube puzzle (src/puzzle.py): the geometry layer, the puzzle state *)
(* space (SnakePuzzleSearchSpace) and the depth-first search that consumes *)
(* it.  A state is a sequence of directions; a position is <<x, y, z>>.    *)
(***************************************************************************)
EXTENDS Integers, Sequences, FiniteSets, TLC

(***************************************************************************)
(* Bounds of the model.                                                    *)
(***************************************************************************)
\* Longest state enumerated exhaustively as an input of a call.
MaxLen == 3
\* Iteration orders of a Python set that are tried: 0..MaxOrder.
MaxOrder == 1
\* Longest list of positions enumerated as an input of is_connected.
MaxPositions == 3
\* The x coordinates of those positions: 0..MaxCoord (y and z are 0 or 1).
MaxCoord == 1

(***************************************************************************)
(* Generic helpers.                                                        *)
(***************************************************************************)
Range(s) == {s[i] : i \in DOMAIN s}

\* Use(value), with value computed once: what an assignment to a local name
\* does in the code.  (A name defined by LET is computed again wherever it is
\* used when TLC evaluates ENABLED.)
Once(value, Use(_)) == CHOOSE result \in {Use(v) : v \in {value}} : TRUE

MinOf(S) == CHOOSE m \in S : \A n \in S : m <= n

MaxOf(S) == CHOOSE m \in S : \A n \in S : m >= n

RECURSIVE SumSeq(_)
SumSeq(s) == IF s = <<>> THEN 0 ELSE s[1] + SumSeq(Tail(s))

Last(s) == s[Len(s)]

IsPrefix(s, t) == Len(s) <= Len(t) /\ SubSeq(t, 1, Len(s)) = s

Prefixes(t) == {SubSeq(t, 1, k) : k \in 1..Len(t)}

RECURSIVE SeqsUpTo(_, _)
SeqsUpTo(S, n) ==
    IF n = 0 THEN {<<>>}
    ELSE LET shorter == SeqsUpTo(S, n - 1)
         IN  shorter \cup {Append(s, d) : s \in shorter, d \in S}

\* Lexicographic order on positions.
PosLess(p, q) ==
    \/ p[1] < q[1]
    \/ p[1] = q[1] /\ p[2] < q[2]
    \/ p[1] = q[1] /\ p[2] = q[2] /\ p[3] < q[3]

RECURSIVE SortedSeq(_)
SortedSeq(S) ==
    IF S = {} THEN <<>>
    ELSE Once(CHOOSE p \in S : \A q \in S \ {p} : PosLess(p, q),
              LAMBDA m : <<m>> \o SortedSeq(S \ {m}))

\* list(S) of a Python set: the elements in the set's iteration order.  The
\* order is not fixed by the language; order k lists the elements in sorted
\* order, rotated by k.
ListOfSet(S, k) ==
    Once(SortedSeq(S), LAMBDA sorted :
        [i \in 1..Len(sorted) |-> sorted[((i - 1 + k) % Len(sorted)) + 1]])

(***************************************************************************)
(* Geometry layer.                                                         *)
(***************************************************************************)
Directions == {"N", "S", "E", "W", "U", "D"}

\* What move yields when it raises ValueError.
ValueError == <<"ValueError">>

\* move when an unrecognized direction leaves the position where it is.
move_lenient(position, direction) ==
    LET x == position[1]
        y == position[2]
        z == position[3]
    IN  IF direction = "E" THEN <<x + 1, y, z>>
        ELSE IF direction = "W" THEN <<x - 1, y, z>>
        ELSE IF direction = "N" THEN <<x, y + 1, z>>
        ELSE IF direction = "S" THEN <<x, y - 1, z>>
        ELSE IF direction = "U" THEN <<x, y, z + 1>>
        ELSE IF direction = "D" THEN <<x, y, z - 1>>
        ELSE position

\* move when the branch for D repeats the body of the branch for U.
move_down_as_up(position, direction) ==
    LET x == position[1]
        y == position[2]
        z == position[3]
    IN  IF direction = "E" THEN <<x + 1, y, z>>
        ELSE IF direction = "W" THEN <<x - 1, y, z>>
        ELSE IF direction = "N" THEN <<x, y + 1, z>>
        ELSE IF direction = "S" THEN <<x, y - 1, z>>
        ELSE IF direction = "U" THEN <<x, y, z + 1>>
        ELSE IF direction = "D" THEN <<x, y, z + 1>>
        ELSE ValueError

move(position, direction) ==
    LET x == position[1]
        y == position[2]
        z == position[3]
    IN  IF direction = "E" THEN <<x + 1, y, z>>
        ELSE IF direction = "W" THEN <<x - 1, y, z>>
        ELSE IF direction = "N" THEN <<x, y + 1, z>>
        ELSE IF direction = "S" THEN <<x, y - 1, z>>
        ELSE IF direction = "U" THEN <<x, y, z + 1>>
        ELSE IF direction = "D" THEN <<x, y, z - 1>>
        ELSE ValueError

\* The positions after the first n directions of the trajectory: the list
\* the loop of positions_visited has built after n rounds.
RECURSIVE positions_after(_, _)
positions_after(trajectory, n) ==
    IF n = 0 THEN << <<0, 0, 0>> >>
    ELSE Once(positions_after(trajectory, n - 1), LAMBDA positions :
             Append(positions, move(Last(positions), trajectory[n])))

positions_visited(trajectory) == positions_after(trajectory, Len(trajectory))

\* shift_into_positive_space when the minimum of x stands in for the minimum
\* of every axis.
shift_into_positive_space_by_min_x(positions) ==
    LET min_x == MinOf({positions[i][1] : i \in DOMAIN positions})
    IN  [i \in DOMAIN positions |->
            <<positions[i][1] - min_x, positions[i][2] - min_x, positions[i][3] - min_x>>]

shift_into_positive_space(positions) ==
    Once(MinOf({positions[i][1] : i \in DOMAIN positions}), LAMBDA min_x :
    Once(MinOf({positions[i][2] : i \in DOMAIN positions}), LAMBDA min_y :
    Once(MinOf({positions[i][3] : i \in DOMAIN positions}), LAMBDA min_z :
        [i \in DOMAIN positions |->
            <<positions[i][1] - min_x, positions[i][2] - min_y, positions[i][3] - min_z>>])))

\* The order in which is_connected looks at the neighbours of a position.
AdjacentOrder == <<"N", "S", "E", "W", "U", "D">>

\* The while loop of is_connected: the positions left over when open_list is
\* exhausted.  The six neighbours of a position are distinct, so removing one
\* from positions does not change the test of the next.
RECURSIVE is_connected_loop(_, _)
\* The loop of is_connected when the positions found are removed but never
\* enqueued: only the neighbours of the first position are reached.
is_connected_loop_no_enqueue(open_list, positions) ==
    IF Len(open_list) = 0 THEN positions
    ELSE LET position == Head(open_list)
             adjacent == [i \in 1..6 |-> move(position, AdjacentOrder[i])]
             found == SelectSeq(adjacent, LAMBDA a : a \in positions)
         IN  positions \ Range(found)

is_connected_loop(open_list, positions) ==
    IF Len(open_list) = 0 THEN positions
    ELSE LET position == Head(open_list)
             adjacent == [i \in 1..6 |-> move(position, AdjacentOrder[i])]
         IN  Once(SelectSeq(adjacent, LAMBDA a : a \in positions), LAMBDA found :
                 is_connected_loop(Tail(open_list) \o found, positions \ Range(found)))

is_connected(positions) ==
    IF Len(positions) = 0 THEN TRUE
    ELSE is_connected_loop(<<positions[1]>>, Range(Tail(positions))) = {}

(***************************************************************************)
(* Puzzle instances.                                                       *)
(***************************************************************************)
\* The puzzle of class StandardSnakePuzzle.
StandardSnakePuzzle ==
    [multipliers |-> <<2, 2, 2, 2, 1, 1, 1, 2, 2, 1, 1, 2, 1, 2, 1, 1, 2>>,
     cube_width |-> 3]

\* Inputs of the constructor.  UnitPuzzle7 and UnitPuzzle8 are the 2x2x2 cube
\* with every segment of length 1, the multipliers summing to the number of
\* moves (7) and to the number of cells (8); StraightPuzzle starts with a run
\* of three cells, which no 2x2x2 cube holds; ShortPuzzle is a chain of four
\* cells in a 3x3x3 cube, which has room to go on; SpiralPuzzle is a 3x3x3
\* chain taken from a fold that starts E, D, S, S, U, U, N, N, W, ...;
\* UnitPuzzle9 is a chain of unit segments longer than its 2x2x2 cube.
UnitPuzzle7 == [multipliers |-> <<1, 1, 1, 1, 1, 1, 1>>, cube_width |-> 2]

UnitPuzzle8 == [multipliers |-> <<1, 1, 1, 1, 1, 1, 1, 1>>, cube_width |-> 2]

UnitPuzzle9 == [multipliers |-> <<1, 1, 1, 1, 1, 1, 1, 1, 1>>, cube_width |-> 2]

StraightPuzzle == [multipliers |-> <<2, 1, 1, 1, 1, 1>>, cube_width |-> 2]

ShortPuzzle == [multipliers |-> <<1, 1, 1>>, cube_width |-> 3]

SpiralPuzzle ==
    [multipliers |-> <<1, 1, 2, 2, 2, 1, 2, 2, 2, 1, 2, 2, 2, 1, 1, 2>>,
     cube_width |-> 3]

Puzzles ==
    {UnitPuzzle7, UnitPuzzle8, UnitPuzzle9, StraightPuzzle, ShortPuzzle, SpiralPuzzle,
     StandardSnakePuzzle}

(***************************************************************************)
(* State: the fields of a SnakePuzzleSearchSpace, the arguments it is      *)
(* constructed from, the iteration order of the sets of this run, the last *)
(* call made on the instance, and the state of the depth-first search.     *)
(***************************************************************************)
VARIABLES
    params,          \* the arguments of the constructor
    set_order,       \* the iteration order of Python sets in this run
    pc,              \* "new", "ready", "error", "search", "found", "failed"
    multipliers,     \* self.multipliers
    pivot_points,    \* self.pivot_points
    start_state,     \* self.start_state
    cube_width,      \* self.cube_width
    goal_positions,  \* self.goal_positions
    call,            \* the method called last
    arg,             \* its argument
    ret,             \* the boolean it returned, if it returns one
    returned,        \* the states it returned, if it returns states: the
                     \* list of get_successors, the one state of get_start_state
    walk,            \* arg was reached from the start state by get_successors
    stack,           \* the frontier of the search, next state first
    result,          \* the state the search returned
    point,           \* the position passed to move, <<>> otherwise
    dir,             \* the direction passed to move, "" otherwise
    moved,           \* the position move returned, <<>> if none
    raised           \* the exception the call raised, "" if none

fields == <<multipliers, pivot_points, start_state, cube_width, goal_positions>>

vars ==
    <<params, set_order, pc, multipliers, pivot_points, start_state, cube_width,
      goal_positions, call, arg, ret, returned, walk, stack, result, point, dir, moved, raised>>

(***************************************************************************)
(* Puzzle state-space layer.                                               *)
(***************************************************************************)
\* A constructor that rejects multipliers whose sum is not the number of cells.
SnakePuzzleSearchSpace_validating(ms, width) ==
    [raised |-> SumSeq(ms) # width * width * width,
     multipliers |-> ms,
     pivot_points |-> {SumSeq(SubSeq(ms, 1, i)) : i \in 0..(Len(ms) - 1)},
     start_state |-> <<"E">>,
     cube_width |-> width,
     goal_positions |->
        {<<x, y, z>> : x \in 0..(width - 1), y \in 0..(width - 1), z \in 0..(width - 1)}]

\* __init__: the fields of the new instance.  The constructor checks nothing
\* and never raises.
SnakePuzzleSearchSpace(ms, width) ==
    [raised |-> FALSE,
     multipliers |-> ms,
     pivot_points |-> {SumSeq(SubSeq(ms, 1, i)) : i \in 0..(Len(ms) - 1)},
     start_state |-> <<"E">>,
     cube_width |-> width,
     goal_positions |->
        {<<x, y, z>> : x \in 0..(width - 1), y \in 0..(width - 1), z \in 0..(width - 1)}]

\* at_pivot off by one: it looks at the length before the last move.
at_pivot_off_by_one(state) == (Len(state) - 1) \in pivot_points

at_pivot(state) == Len(state) \in pivot_points

get_start_state == start_state

is_goal_state(state) ==
    Once(shift_into_positive_space(positions_visited(state)), LAMBDA positions :
        Range(positions) = goal_positions)

\* is_valid_state with the bound on the coordinates one too low.
is_valid_state_narrow(state) ==
    Once(shift_into_positive_space(positions_visited(state)), LAMBDA positions :
        LET max_x == MaxOf({positions[i][1] : i \in DOMAIN positions})
            max_y == MaxOf({positions[i][2] : i \in DOMAIN positions})
            max_z == MaxOf({positions[i][3] : i \in DOMAIN positions})
        IN  /\ MaxOf({max_x, max_y, max_z}) < cube_width - 1
            /\ Cardinality(Range(positions)) = Len(positions)
            /\ Once(ListOfSet(goal_positions \ Range(positions), set_order),
                    LAMBDA unvisited : is_connected(unvisited)))

\* is_valid_state in a run whose sets iterate in the given order.
is_valid_state_in(state, order) ==
    Once(shift_into_positive_space(positions_visited(state)), LAMBDA positions :
        LET max_x == MaxOf({positions[i][1] : i \in DOMAIN positions})
            max_y == MaxOf({positions[i][2] : i \in DOMAIN positions})
            max_z == MaxOf({positions[i][3] : i \in DOMAIN positions})
        IN  /\ MaxOf({max_x, max_y, max_z}) < cube_width
            /\ Cardinality(Range(positions)) = Len(positions)
            /\ Once(ListOfSet(goal_positions \ Range(positions), order),
                    LAMBDA unvisited : is_connected(unvisited)))

\* is_valid_state without the test that no position is visited twice.
is_valid_state_revisiting(state) ==
    Once(shift_into_positive_space(positions_visited(state)), LAMBDA positions :
        LET max_x == MaxOf({positions[i][1] : i \in DOMAIN positions})
            max_y == MaxOf({positions[i][2] : i \in DOMAIN positions})
            max_z == MaxOf({positions[i][3] : i \in DOMAIN positions})
        IN  /\ MaxOf({max_x, max_y, max_z}) < cube_width
            /\ Once(ListOfSet(goal_positions \ Range(positions), set_order),
                    LAMBDA unvisited : is_connected(unvisited)))

is_valid_state(state) == is_valid_state_in(state, set_order)

\* next_directions with the branch of "E", "W" copied to "N", "S".
next_directions_same_axis(state) ==
    IF ~at_pivot(state) THEN <<Last(state)>>
    ELSE IF Last(state) \in {"E", "W"} THEN <<"N", "S", "U", "D">>
    ELSE IF Last(state) \in {"N", "S"} THEN <<"N", "S", "U", "D">>
    ELSE IF Last(state) \in {"U", "D"} THEN <<"E", "W", "N", "S">>
    ELSE <<>>

\* The directions get_successors tries after state, in the order it tries them.
next_directions(state) ==
    IF ~at_pivot(state) THEN <<Last(state)>>
    ELSE IF Last(state) \in {"E", "W"} THEN <<"N", "S", "U", "D">>
    ELSE IF Last(state) \in {"N", "S"} THEN <<"E", "W", "U", "D">>
    ELSE IF Last(state) \in {"U", "D"} THEN <<"E", "W", "N", "S">>
    ELSE <<>>

\* The one order of the six directions that the three lists above follow.
EnumerationOrder == <<"E", "W", "N", "S", "U", "D">>

candidates(state) ==
    [i \in 1..Len(next_directions(state)) |-> Append(state, next_directions(state)[i])]

\* get_successors without the test of the length.
get_successors_unbounded(state) == SelectSeq(candidates(state), is_valid_state)

\* get_successors when the direction is never appended: the one candidate is
\* the state itself.
get_successors_in_place(state) ==
    IF Len(state) >= SumSeq(multipliers) THEN <<>>
    ELSE SelectSeq(<<state>>, is_valid_state)

\* get_successors without the filter.
get_successors_unfiltered(state) ==
    IF Len(state) >= SumSeq(multipliers) THEN <<>>
    ELSE candidates(state)

get_successors(state) ==
    IF Len(state) >= SumSeq(multipliers) THEN <<>>
    ELSE SelectSeq(candidates(state), is_valid_state)

\* get_successors in a run whose sets iterate in the given order.
get_successors_in(state, order) ==
    IF Len(state) >= SumSeq(multipliers) THEN <<>>
    ELSE SelectSeq(candidates(state), LAMBDA c : is_valid_state_in(c, order))

(***************************************************************************)
(* Construction.                                                           *)
(***************************************************************************)
NoCall ==
    /\ call = "none"
    /\ arg = <<>>
    /\ ret = FALSE
    /\ returned = <<>>
    /\ walk = FALSE
    /\ point = <<>>
    /\ dir = ""
    /\ moved = <<>>
    /\ raised = ""

Init ==
    /\ params \in Puzzles
    /\ set_order \in 0..MaxOrder
    /\ pc = "new"
    /\ multipliers = <<>>
    /\ pivot_points = {}
    /\ start_state = <<>>
    /\ cube_width = 0
    /\ goal_positions = {}
    /\ NoCall
    /\ stack = <<>>
    /\ result = <<>>

Construct ==
    /\ pc = "new"
    /\ LET self == SnakePuzzleSearchSpace(params.multipliers, params.cube_width)
       IN  /\ pc' = IF self.raised THEN "error" ELSE "ready"
           /\ multipliers' = self.multipliers
           /\ pivot_points' = self.pivot_points
           /\ start_state' = self.start_state
           /\ cube_width' = self.cube_width
           /\ goal_positions' = self.goal_positions
    /\ UNCHANGED <<point, moved, dir, raised, params, set_order, call, arg, ret, returned, walk, stack, result>>

(***************************************************************************)
(* Depth-first search over the instance: dfs of module search, which is    *)
(* not among the sources; modelled from its contract.                      *)
(***************************************************************************)
DfsStart ==
    /\ pc = "ready"
    /\ call = "none"
    /\ pc' = "search"
    /\ stack' = <<get_start_state>>
    /\ call' = "get_start_state"
    /\ arg' = <<>>
    /\ ret' = FALSE
    /\ returned' = <<get_start_state>>
    /\ walk' = TRUE
    /\ UNCHANGED <<point, moved, dir, raised, params, set_order, fields, result>>

\* The state taken from the frontier is a goal: the search returns it.
DfsFound ==
    /\ pc = "search"
    /\ stack # <<>>
    /\ is_goal_state(Head(stack))
    /\ pc' = "found"
    /\ result' = Head(stack)
    /\ stack' = Tail(stack)
    /\ call' = "is_goal_state"
    /\ arg' = Head(stack)
    /\ ret' = TRUE
    /\ returned' = <<>>
    /\ UNCHANGED <<point, moved, dir, raised, params, set_order, fields, walk>>

\* It is not: its successors go on the frontier, first-listed explored first.
DfsExpand ==
    /\ pc = "search"
    /\ stack # <<>>
    /\ ~is_goal_state(Head(stack))
    /\ stack' = get_successors(Head(stack)) \o Tail(stack)
    /\ call' = "get_successors"
    /\ arg' = Head(stack)
    /\ ret' = FALSE
    /\ returned' = get_successors(Head(stack))
    /\ UNCHANGED <<point, moved, dir, raised, params, set_order, pc, fields, walk, result>>

\* The frontier is exhausted: the search signals failure.
DfsFail ==
    /\ pc = "search"
    /\ stack = <<>>
    /\ pc' = "failed"
    /\ UNCHANGED <<point, moved, dir, raised, params, set_order, fields, call, arg, ret, returned, walk, stack, result>>

Next == Construct \/ DfsStart \/ DfsFound \/ DfsExpand \/ DfsFail

Spec == Init /\ [][Next]_vars

\* The search is one sequential loop: while a step of it can be taken, the
\* next step is taken.
SpecFair == Spec /\ WF_vars(Next)

(***************************************************************************)
(* Calls on a constructed instance, made by any caller: with a state of    *)
(* the caller's own, or with a state the instance returned before.  The    *)
(* methods change nothing, so what a call returns does not depend on the   *)
(* calls before it: a call with a state of the caller's own is taken as    *)
(* the first call on the instance.                                         *)
(***************************************************************************)
\* The 2x2x2 fold the search finds for UnitPuzzle7, and one more move.
RevisitSample == <<"E", "N", "W", "U", "E", "S", "W", "E">>

\* A fold of the 3x3x3 cube that starts in the middle of an edge.
EdgeFoldSample ==
    <<"E", "D", "N", "W", "S", "D", "E", "E", "N", "W", "W", "N", "E",
      "E", "U", "W", "W", "U", "S", "E", "N", "E", "S", "S", "D", "N">>

\* A fold of the chain of SpiralPuzzle.
SpiralFoldSample ==
    <<"E", "D", "S", "S", "U", "U", "N", "N", "W", "S", "S", "D", "D",
      "N", "N", "W", "U", "U", "S", "S", "D", "D", "N", "U", "E", "E">>

\* A fold of the chain of StandardSnakePuzzle.
StandardFoldSample ==
    <<"E", "E", "N", "N", "W", "W", "U", "U", "E", "D", "E", "S", "S",
      "W", "W", "U", "N", "D", "D", "E", "U", "U", "S", "E", "N", "N">>

\* The states a caller passes in: every non-empty state up to MaxLen moves,
\* and every non-empty prefix of the samples.
InputStates ==
    (SeqsUpTo(Directions, MaxLen) \ {<<>>})
        \cup Prefixes(RevisitSample) \cup Prefixes(EdgeFoldSample)
        \cup Prefixes(SpiralFoldSample) \cup Prefixes(StandardFoldSample)

Call_get_start_state ==
    /\ pc = "ready"
    /\ call = "none"
    /\ call' = "get_start_state"
    /\ arg' = <<>>
    /\ ret' = FALSE
    /\ returned' = <<get_start_state>>
    /\ walk' = TRUE
    /\ UNCHANGED <<point, moved, dir, raised, params, set_order, pc, fields, stack, result>>

Call_is_goal_state ==
    /\ pc = "ready"
    /\ call = "none"
    /\ \E state \in InputStates :
        /\ call' = "is_goal_state"
        /\ arg' = state
        /\ ret' = is_goal_state(state)
        /\ returned' = <<>>
    /\ walk' = FALSE
    /\ UNCHANGED <<point, moved, dir, raised, params, set_order, pc, fields, stack, result>>

\* is_valid_state when the visited cells are taken out of self.goal_positions
\* in place (-= for -) to find the unvisited ones.
Call_is_valid_state_in_place ==
    /\ pc = "ready"
    /\ call = "none"
    /\ \E state \in InputStates :
        /\ call' = "is_valid_state"
        /\ arg' = state
        /\ ret' = is_valid_state(state)
        /\ returned' = <<>>
        /\ goal_positions' =
                goal_positions \ Range(shift_into_positive_space(positions_visited(state)))
    /\ walk' = FALSE
    /\ UNCHANGED <<point, moved, dir, raised, params, set_order, pc, multipliers,
                   pivot_points, start_state, cube_width, stack, result>>

Call_is_valid_state ==
    /\ pc = "ready"
    /\ call = "none"
    /\ \E state \in InputStates :
        /\ call' = "is_valid_state"
        /\ arg' = state
        /\ ret' = is_valid_state(state)
        /\ returned' = <<>>
    /\ walk' = FALSE
    /\ UNCHANGED <<point, moved, dir, raised, params, set_order, pc, fields, stack, result>>

Call_get_successors ==
    /\ pc = "ready"
    /\ call = "none"
    /\ \E state \in InputStates :
        /\ call' = "get_successors"
        /\ arg' = state
        /\ ret' = FALSE
        /\ returned' = get_successors(state)
    /\ walk' = FALSE
    /\ UNCHANGED <<point, moved, dir, raised, params, set_order, pc, fields, stack, result>>

\* get_successors of a state the instance returned: the start state, or a
\* successor of a state reached this way.
Call_get_successors_of_returned ==
    /\ pc = "ready"
    /\ walk
    /\ call \in {"get_start_state", "get_successors"}
    /\ \E state \in Range(returned) :
        /\ call' = "get_successors"
        /\ arg' = state
        /\ ret' = FALSE
        /\ returned' = get_successors(state)
    /\ UNCHANGED <<point, moved, dir, raised, params, set_order, pc, fields, walk, stack, result>>

\* The positions and the symbols passed to move: positions on both sides of
\* the origin, the six directions and three symbols that are none of them.
InputPoints == (-1..MaxCoord) \X (-1..1) \X (-1..1)

InputSymbols == Directions \cup {"X", "n", "NE"}

Call_move ==
    /\ call = "none"
    /\ \E position \in InputPoints, direction \in InputSymbols :
        /\ call' = "move"
        /\ point' = position
        /\ dir' = direction
        /\ IF move(position, direction) = ValueError
           THEN moved' = <<>> /\ raised' = "ValueError"
           ELSE moved' = move(position, direction) /\ raised' = ""
    /\ UNCHANGED <<params, set_order, pc, fields, arg, ret, returned, walk, stack, result>>

NextCalls ==
    \/ Construct
    \/ Call_move
    \/ Call_get_start_state
    \/ Call_is_goal_state
    \/ Call_is_valid_state
    \/ Call_get_successors
    \/ Call_get_successors_of_returned

SpecCalls == Init /\ [][NextCalls]_vars

(***************************************************************************)
(* Calls of the geometry layer, which needs no instance.                   *)
(***************************************************************************)
NoPuzzle == [multipliers |-> <<>>, cube_width |-> 0]

GridPositions == (0..MaxCoord) \X (0..1) \X (0..1)

\* The lists of positions passed to is_connected: in any order, with repeats.
InputPositions == SeqsUpTo(GridPositions, MaxPositions)

InitGeom ==
    /\ params = NoPuzzle
    /\ set_order = 0
    /\ pc = "new"
    /\ multipliers = <<>>
    /\ pivot_points = {}
    /\ start_state = <<>>
    /\ cube_width = 0
    /\ goal_positions = {}
    /\ NoCall
    /\ stack = <<>>
    /\ result = <<>>

Call_is_connected ==
    /\ call = "none"
    /\ \E positions \in InputPositions :
        /\ call' = "is_connected"
        /\ arg' = positions
        /\ ret' = is_connected(positions)
    /\ UNCHANGED <<point, moved, dir, raised, params, set_order, pc, fields, returned, walk, stack, result>>

\* The offsets that carry the input positions away from the origin.
InputOffsets == {<<0, 0, 0>>, <<-2, 0, 1>>, <<1, -1, 3>>}

Translate(positions, offset) ==
    [i \in DOMAIN positions |-> [k \in 1..3 |-> positions[i][k] + offset[k]]]

Call_shift_into_positive_space ==
    /\ call = "none"
    /\ \E positions \in InputPositions \ {<<>>}, offset \in InputOffsets :
        /\ call' = "shift_into_positive_space"
        /\ arg' = Translate(positions, offset)
        /\ returned' = shift_into_positive_space(Translate(positions, offset))
    /\ UNCHANGED <<point, moved, dir, raised, params, set_order, pc, fields, ret, walk, stack, result>>

NextGeom ==
    \/ Call_is_connected
    \/ Call_shift_into_positive_space
    \/ Call_move

SpecGeom == InitGeom /\ [][NextGeom]_vars

(***************************************************************************)
(* What the properties speak of, stated without the methods above.         *)
(***************************************************************************)
Axis(d) == IF d \in {"E", "W"} THEN 1 ELSE IF d \in {"N", "S"} THEN 2 ELSE 3

\* The cells of the cube of the instance.
CubeCells == (0..(cube_width - 1)) \X (0..(cube_width - 1)) \X (0..(cube_width - 1))

\* The number of moves of a trajectory that visits every cell once.
FullLength == cube_width * cube_width * cube_width - 1

\* The lengths at which a run of the chain ends: the cumulative sums of the
\* multipliers.
PivotLengths == {SumSeq(SubSeq(multipliers, 1, i)) : i \in 1..Len(multipliers)}

ShiftedCells(t) == shift_into_positive_space(positions_visited(t))

\* The cells t visits are pairwise distinct.
NoRevisit(t) == \A i, j \in DOMAIN ShiftedCells(t) : i # j => ShiftedCells(t)[i] # ShiftedCells(t)[j]

\* t fits a cube of the instance's width and never visits a cell twice.
FitsCube(t) ==
    /\ \A i \in DOMAIN ShiftedCells(t) : \A k \in 1..3 : ShiftedCells(t)[i][k] < cube_width
    /\ NoRevisit(t)

\* t visits every cell of the cube exactly once.
FillsCube(t) ==
    /\ Len(t) = FullLength
    /\ NoRevisit(t)
    /\ Range(ShiftedCells(t)) = CubeCells

\* The directions the chain allows after s: straight on inside a run, a
\* quarter turn where a run ends.
ChainDirections(s) ==
    IF Len(s) \in PivotLengths
    THEN {d \in Directions : Axis(d) # Axis(Last(s))}
    ELSE {Last(s)}

\* Some trajectory that extends s as the chain allows fills the cube.
RECURSIVE FoldExists(_)
FoldExists(s) ==
    IF ~FitsCube(s) THEN FALSE
    ELSE IF Len(s) = FullLength THEN FillsCube(s)
    ELSE IF Len(s) >= SumSeq(multipliers) THEN FALSE
    ELSE \E d \in ChainDirections(s) : FoldExists(Append(s, d))

TotalLength == SumSeq(multipliers)

DirIndex(d) == CHOOSE i \in 1..6 : EnumerationOrder[i] = d

\* S is one connected component under six-direction adjacency: every position
\* of S is reached from any one of them through positions of S.
RECURSIVE Component(_, _)
Component(seen, S) ==
    LET more == {p \in S \ seen : \E q \in seen, d \in Directions : move(q, d) = p}
    IN  IF more = {} THEN seen ELSE Component(seen \cup more, S)

OneComponent(S) == S = {} \/ Component({CHOOSE p \in S : TRUE}, S) = S

(***************************************************************************)
(* The properties.                                                         *)
(***************************************************************************)
\* C1: is_valid_state never rejects a state that some trajectory extends to a
\* fold filling the cube: for every state s and every trajectory t, if t
\* extends s and visits every cell of the cube exactly once, then
\* is_valid_state(s) is true.
C1_ValidNeverRejectsExtendable ==
    call = "is_valid_state" =>
        \A t \in InputStates : (IsPrefix(arg, t) /\ FillsCube(t)) => ret = TRUE

\* C2: the search signals failure only if no fold of the chain exists from the
\* start state.
C2_FailureOnlyIfNoFold == pc = "failed" => ~FoldExists(start_state)

C4_GoalIffFilledOnce ==
    call = "is_goal_state" => (ret <=> FillsCube(arg))

\* C5: at a pivot length below the total, get_successors returns at most four
\* states, each the state plus one direction of another axis than its last
\* move, in the enumeration order of the directions.
C5_PivotSuccessors ==
    (call = "get_successors" /\ Len(arg) \in PivotLengths /\ Len(arg) < TotalLength) =>
        /\ Len(returned) <= 4
        /\ \A i \in DOMAIN returned :
            \E d \in Directions :
                /\ returned[i] = Append(arg, d)
                /\ Axis(d) # Axis(Last(arg))
        /\ \A i, j \in DOMAIN returned :
            i < j => DirIndex(Last(returned[i])) < DirIndex(Last(returned[j]))

C5_Witness ==
    /\ call = "get_successors"
    /\ Len(arg) \in PivotLengths
    /\ Len(arg) < TotalLength
    /\ Len(arg) > 1
    /\ Len(returned) = 4

\* C6: at a length below the total that is no pivot, get_successors returns
\* nothing or the one state that repeats the last direction.
C6_StraightSuccessor ==
    (call = "get_successors" /\ Len(arg) \notin PivotLengths /\ Len(arg) < TotalLength) =>
        \/ returned = <<>>
        \/ returned = <<Append(arg, Last(arg))>>

C6_Witness ==
    /\ call = "get_successors"
    /\ Len(arg) \notin PivotLengths
    /\ Len(arg) < TotalLength
    /\ returned = <<Append(arg, Last(arg))>>

\* C7: get_successors returns nothing for a state as long as the total of the
\* multipliers or longer, and no state reached from the start state by
\* get_successors is longer than that total.
C7_NothingBeyondTotal ==
    /\ (call = "get_successors" /\ Len(arg) >= TotalLength) => returned = <<>>
    /\ (walk /\ call = "get_start_state") => Len(returned) <= TotalLength
    /\ (walk /\ call = "get_successors") =>
        /\ Len(arg) <= TotalLength
        /\ \A i \in DOMAIN returned : Len(returned[i]) <= TotalLength

C7_Witness ==
    /\ walk
    /\ call = "get_successors"
    /\ Len(arg) = TotalLength
    /\ TotalLength < FullLength
    /\ returned = <<>>

\* C8: below the total, get_successors returns exactly the extensions by a
\* direction the chain allows for which is_valid_state is true, each once.
C8_ExactlyTheValidCandidates ==
    (call = "get_successors" /\ Len(arg) < TotalLength) =>
        /\ Range(returned) = {c \in {Append(arg, d) : d \in ChainDirections(arg)} : is_valid_state(c)}
        /\ Cardinality(Range(returned)) = Len(returned)

C8_Witness ==
    /\ call = "get_successors"
    /\ Len(arg) < TotalLength
    /\ returned # <<>>
    /\ Len(returned) < Cardinality(ChainDirections(arg))

\* C9: on a 2x2x2 cube whose chain has segments of length 1 only and admits a
\* fold, the search returns a state of 7 moves that visits each of the 8
\* cells exactly once.
C9_UnitCubeSolved ==
    (/\ pc \in {"found", "failed"}
     /\ cube_width = 2
     /\ \A i \in DOMAIN multipliers : multipliers[i] = 1
     /\ FoldExists(start_state)) =>
        /\ pc = "found"
        /\ Len(result) = 7
        /\ NoRevisit(result)
        /\ Range(ShiftedCells(result)) = CubeCells
        /\ Cardinality(CubeCells) = 8

C9_Witness ==
    /\ pc = "found"
    /\ cube_width = 2
    /\ \A i \in DOMAIN multipliers : multipliers[i] = 1
    /\ Len(result) = 7

\* C10: is_connected is true exactly of the lists, in any order and with or
\* without repeats, whose distinct positions form one connected component.
C10_ConnectedIffOneComponent ==
    call = "is_connected" => (ret <=> OneComponent(Range(arg)))

\* C11: get_successors and is_valid_state return the same value in every run,
\* whatever order the set of unvisited cells iterates in: the value returned
\* under the run's own order is the value under every other order.
C11_SameUnderEveryOrder ==
    /\ call = "get_successors" =>
            \A order \in 0..MaxOrder : returned = get_successors_in(arg, order)
    /\ call = "is_valid_state" =>
            \A order \in 0..MaxOrder : ret = is_valid_state_in(arg, order)

\* A run under another order filters the candidates of a state that leaves
\* several cells unvisited, keeping some and rejecting some.
C11_Witness ==
    /\ call = "get_successors"
    /\ set_order > 0
    /\ Cardinality(goal_positions \ Range(ShiftedCells(arg))) >= 3
    /\ returned # <<>>
    /\ Len(returned) < Len(candidates(arg))
Inverse(d) ==
    CASE d = "N" -> "S" [] d = "S" -> "N"
      [] d = "E" -> "W" [] d = "W" -> "E"
      [] d = "U" -> "D" [] d = "D" -> "U"

\* C12: a move in one of the six directions followed by a move in the
\* opposite direction returns to the position moved from, and the move
\* changes exactly one coordinate, by exactly 1.
C12_MoveInverse ==
    (call = "move" /\ dir \in Directions) =>
        /\ move(moved, Inverse(dir)) = point
        /\ \E k \in 1..3 :
            /\ moved[k] - point[k] \in {-1, 1}
            /\ \A j \in (1..3) \ {k} : moved[j] = point[j]

\* move went down from below the origin.
C12_Witness ==
    /\ call = "move"
    /\ dir = "D"
    /\ point[3] = -1
    /\ moved[3] = -2
\* C13: move raises ValueError and returns no position for every symbol that
\* is none of the six directions, and raises nothing for the six; the states
\* get_successors generates from the start state hold the six directions
\* only, so that no move along them raises.
C13_ValueErrorOnlyOutsideDirections ==
    /\ call = "move" =>
            IF dir \in Directions
            THEN raised = "" /\ Len(moved) = 3
            ELSE raised = "ValueError" /\ moved = <<>>
    /\ walk =>
            \A n \in DOMAIN returned : \A i \in DOMAIN returned[n] :
                /\ returned[n][i] \in Directions
                /\ move(positions_visited(SubSeq(returned[n], 1, i - 1))[i],
                        returned[n][i]) # ValueError

\* move was called with a lower-case symbol and raised.
C13_Witness == call = "move" /\ dir = "n" /\ raised = "ValueError"
\* C14: shift_into_positive_space of a non-empty list of positions returns a
\* list of the same length whose smallest x, smallest y and smallest z are 0
\* and whose entries lie as far from each other, entry by entry, as the
\* entries of the input.
C14_ShiftToZeroKeepsOffsets ==
    call = "shift_into_positive_space" =>
        /\ Len(returned) = Len(arg)
        /\ \A k \in 1..3 : MinOf({returned[i][k] : i \in DOMAIN returned}) = 0
        /\ \A i, j \in DOMAIN arg : \A k \in 1..3 :
                returned[i][k] - returned[j][k] = arg[i][k] - arg[j][k]

\* A list of distinct positions away from the origin on every axis was shifted.
C14_Witness ==
    /\ call = "shift_into_positive_space"
    /\ Len(arg) >= 2
    /\ arg[1] # arg[2]
    /\ \A k \in 1..3 : MinOf({arg[i][k] : i \in DOMAIN arg}) # 0
\* The number of moves before the i-th run of a chain, and with it.
RunStart(i) == SumSeq(SubSeq(multipliers, 1, i - 1))

RunEnd(i) == SumSeq(SubSeq(multipliers, 1, i))

\* C15: in every state reached from the start state by get_successors, the
\* move after k moves turns onto another axis when k is a prefix sum of the
\* multipliers and repeats the move before it otherwise; so the moves of
\* the i-th completed run are multipliers[i] equal moves.
C15_RunsFollowMultipliers ==
    walk =>
        \A n \in DOMAIN returned :
            LET state == returned[n]
            IN  /\ \A k \in 1..(Len(state) - 1) :
                        IF k \in PivotLengths
                        THEN Axis(state[k + 1]) # Axis(state[k])
                        ELSE state[k + 1] = state[k]
                /\ \A i \in DOMAIN multipliers :
                        RunEnd(i) <= Len(state) =>
                            \A j \in (RunStart(i) + 1)..RunEnd(i) :
                                state[j] = state[RunEnd(i)]

\* The walk reached a state with a run of two moves or more between two turns.
C15_Witness ==
    /\ walk
    /\ \E n \in DOMAIN returned : \E i \in DOMAIN multipliers :
            /\ i > 1
            /\ multipliers[i] >= 2
            /\ RunEnd(i) < Len(returned[n])
\* C16: on an instance of width 2 or more, the start state and every state
\* reached from it by get_successors visits no position twice, and its
\* positions, shifted, have every coordinate from 0 to cube_width - 1.
C16_ReachableStatesFitCube ==
    (walk /\ cube_width >= 2) =>
        \A n \in DOMAIN returned :
            LET positions == ShiftedCells(returned[n])
            IN  /\ \A i, j \in DOMAIN positions : i # j => positions[i] # positions[j]
                /\ \A i \in DOMAIN positions : \A k \in 1..3 :
                        positions[i][k] >= 0 /\ positions[i][k] < cube_width

\* The walk reached a state that spans the width of its cube on every axis.
C16_Witness ==
    /\ walk
    /\ call = "get_successors"
    /\ \E n \in DOMAIN returned :
            \A k \in 1..3 : \E i \in DOMAIN ShiftedCells(returned[n]) :
                ShiftedCells(returned[n])[i][k] = cube_width - 1
\* C17: once the instance is constructed, no call of get_start_state,
\* is_goal_state, is_valid_state or get_successors changes multipliers,
\* pivot_points, start_state, cube_width or goal_positions, and every state
\* get_successors returns is the state passed in, which the call leaves as
\* it was, with exactly one direction added at its end.
C17_CallsChangeNoField ==
    [][/\ pc = "ready" => fields' = fields
       /\ call' = "get_successors" =>
            \A n \in DOMAIN returned' :
                /\ Len(returned'[n]) = Len(arg') + 1
                /\ SubSeq(returned'[n], 1, Len(arg')) = arg'
                /\ returned'[n] # arg']_vars

\* get_successors returned successors of a state reached from the start state.
C17_Witness ==
    /\ pc = "ready"
    /\ walk
    /\ call = "get_successors"
    /\ Len(arg) > 1
    /\ returned # <<>>
\* C18: the search over an instance terminates: it eventually returns a goal
\* state or exhausts the frontier and signals failure.
C18_SearchTerminates == <>(pc \in {"found", "failed"})

\* The search exhausted the frontier after expanding states.
C18_Witness ==
    /\ pc = "failed"
    /\ call = "get_successors"
    /\ stack = <<>>
\* C19: get_successors returns nothing for a non-empty state that
\* is_goal_state accepts, also when the state is shorter than the total of the
\* multipliers; and every goal state reached from the start state has
\* cube_width^3 - 1 moves.
C19_GoalStateIsTerminal ==
    /\ (call = "get_successors" /\ arg # <<>> /\ is_goal_state(arg)) => returned = <<>>
    /\ walk =>
            \A n \in DOMAIN returned :
                is_goal_state(returned[n]) => Len(returned[n]) = FullLength

\* get_successors was called on a goal state shorter than the chain.
C19_Witness ==
    /\ call = "get_successors"
    /\ arg # <<>>
    /\ is_goal_state(arg)
    /\ Len(arg) < TotalLength
    /\ returned = <<>>
\* The lists that hold the entries of s in another order (s without repeats).
Reorderings(s) == {q \in [DOMAIN s -> Range(s)] : Range(q) = Range(s)}

\* C20: for a list of positions without repeats, is_connected returns for
\* every permutation of the list what it returns for the list.
C20_ConnectedWhateverTheOrder ==
    (call = "is_connected" /\ Cardinality(Range(arg)) = Len(arg)) =>
        \A q \in Reorderings(arg) : is_connected(q) = ret

\* is_connected accepted a list whose first position does not touch its last:
\* the traversal had to go through another position.
C20_Witness ==
    /\ call = "is_connected"
    /\ Len(arg) >= 3
    /\ Cardinality(Range(arg)) = Len(arg)
    /\ ret = TRUE
    /\ \A d \in Directions : move(arg[1], d) # arg[Len(arg)]
==============================================================================
